---- MODULE Spec2Model ----
(***************************************************************************)
(* A model of cppp.py, the include-expanding "pre-pre-processor".          *)
(*                                                                         *)
(* process() writes one #define per symbol, calls expand() on the header   *)
(* with an empty list of past includes, writes the dependency rule and     *)
(* one #undef per symbol.  expand() is recursive; the model keeps its call *)
(* stack explicitly, one frame per active call, and one step per source    *)
(* line read.                                                              *)
(*                                                                         *)
(* Paths and include names are sequences of path components: "./a.h" is    *)
(* <<".", "a.h">>, the empty directory name "" is <<>>.  A line written to *)
(* a file is a record [kind, line, args, fmt].                             *)
(***************************************************************************)
EXTENDS Naturals, Sequences, FiniteSets

\* Longest header body, in lines.
MaxLines == 2

\* The interpreter's limit on nested calls of expand (scaled down).
RecursionLimit == 4

None == <<"None">>

----------------------------------------------------------------------------
(* Lines of source text *)

TextLine(s) == [kind |-> "text", line |-> 0, args |-> <<>>, fmt |-> s]

IncludeLine(name) == [kind |-> "include", line |-> 0, args |-> name, fmt |-> ""]

\* The lines a header may hold: ordinary text, and #include directives of
\* the names a.h, b.h, ./a.h and sys.h (which exists nowhere).
SourceLines ==
    { TextLine("X"),
      IncludeLine(<<"a.h">>),
      IncludeLine(<<"b.h">>),
      IncludeLine(<<".", "a.h">>),
      IncludeLine(<<"sys.h">>) }

RECURSIVE SeqsUpTo(_, _)
SeqsUpTo(S, n) ==
    IF n = 0 THEN { <<>> }
    ELSE LET shorter == SeqsUpTo(S, n - 1)
         IN  shorter \cup { Append(s, x) : s \in shorter, x \in S }

Bodies == SeqsUpTo(SourceLines, MaxLines)

\* The files on disk, by canonical path: a.h and b.h beside the header,
\* and another b.h in the directory inc.
HeaderPath == <<"a.h">>
FilePaths == { <<"a.h">>, <<"b.h">>, <<"inc", "b.h">> }

FileSystems ==
    { [p \in FilePaths |->
          IF p = <<"a.h">> THEN a
          ELSE IF p = <<"b.h">> THEN b
          ELSE <<TextLine("Y")>>] : a \in Bodies, b \in Bodies }

\* -I: the caller-supplied search directories.
IncludeLists == { <<>>, <<<<"inc">>>> }

\* -m: the marker format, the default or blank.
MarkerFormats == { "#line {line} {file}", "" }

\* -D: the symbols, in the mapping's iteration order.
SymbolLists ==
    { <<>>,
      <<[sym |-> "FOO", val |-> "1"], [sym |-> "BAR", val |-> ""]>> }

----------------------------------------------------------------------------
(* The state *)

VARIABLES
    files,      \* canonical path -> lines of the file
    includes,   \* the caller-supplied search directories
    marker,     \* the marker format
    symbols,    \* the symbol mapping
    pc,         \* where process is
    k,          \* symbols defined, or undefined, so far
    stack,      \* the active calls of expand, the root call first
    out,        \* the lines written to w
    dout,       \* the lines written to d
    ret         \* what the root call of expand returned

vars == <<files, includes, marker, symbols, pc, k, stack, out, dout, ret>>

----------------------------------------------------------------------------
(* Paths *)

\* os.path.join(d, name) for a relative name.
Join(d, name) == d \o name

\* os.path.dirname(path).
Dirname(path) == SubSeq(path, 1, Len(path) - 1)

\* What the file system makes of a path: "." components name the same
\* directory.
RECURSIVE Normalize(_)
Normalize(path) ==
    IF path = <<>> THEN <<>>
    ELSE IF Head(path) = "." THEN Normalize(Tail(path))
    ELSE <<Head(path)>> \o Normalize(Tail(path))

\* os.path.isfile(path).
IsFile(path) == Normalize(path) \in DOMAIN files

\* os.path.relpath(path, rel_path), rel_path being the working directory.
RelPath(path) == Normalize(path)

\* The lines read from open(path).
Content(path) == files[Normalize(path)]

----------------------------------------------------------------------------
(* Matching and resolving #include *)

False == <<"False">>

\* if x: in Python, for the values find_include returns.
Truthy(x) == x \notin { None, False, <<>> }

\* INC_RE.match(line) and the stripped group, or None.
match_include(line) ==
    IF line.kind = "include" THEN line.args ELSE None

\* The first directory of incs, in order, holding a file called name.
RECURSIVE find_path(_, _)
find_path(name, incs) ==
    IF incs = <<>> THEN None
    ELSE IF IsFile(Join(Head(incs), name)) THEN Join(Head(incs), name)
    ELSE find_path(name, Tail(incs))

find_include(line, incs) ==
    LET name == match_include(line)
    IN  IF ~Truthy(name) THEN False ELSE find_path(name, incs)

\* FullIncludes with the file's own directory searched first; C3's amended
\* statement must tell the two apart.
FullIncludes_OwnFirst(incs, r) == <<Dirname(r)>> \o incs

\* full_includes of a call of expand on the file r.
FullIncludes(incs, r) == incs \o <<Dirname(r)>>

----------------------------------------------------------------------------
(* Lines written *)

\* (marker + "\n").format(line=line, file=file): a blank format leaves the
\* line break alone, an empty line.
Format(m, line, file) ==
    IF m = "" THEN [kind |-> "text", line |-> 0, args |-> <<>>, fmt |-> ""]
    ELSE [kind |-> "marker", line |-> line, args |-> file, fmt |-> m]

\* DefineLine without the case of an empty value; C8 must tell the two
\* apart.
DefineLine_AlwaysValue(s) ==
    [kind |-> "define", line |-> 0, args |-> <<s.sym, s.val>>, fmt |-> "#define %s %s"]

DefineLine(s) ==
    IF s.val # ""
    THEN [kind |-> "define", line |-> 0, args |-> <<s.sym, s.val>>, fmt |-> "#define %s %s"]
    ELSE [kind |-> "define", line |-> 0, args |-> <<s.sym>>, fmt |-> "#define %s"]

UndefLine(s) ==
    [kind |-> "undef", line |-> 0, args |-> <<s.sym>>, fmt |-> "#undef %s"]

\* '%s: %s\n\n' % (w.name, ' \\\n '.join(depends)), w being the file "out".
RuleLine(depends) ==
    [kind |-> "rule", target |-> <<"out">>, deps |-> depends]

PhonyLine(dep) ==
    [kind |-> "rule", target |-> dep, deps |-> <<>>]

----------------------------------------------------------------------------
(* The calls of expand *)

\* The frame of expand(r, w, includes, past, marker, rel_path) once it has
\* written its first marker.
NewFrame(r, past) ==
    [r |-> r, line_no |-> 0, past |-> past, depends |-> <<>>,
     name |-> RelPath(r)]

\* CallerChain had the call extended the caller's list in place
\* (past.append(path)); C10 must tell the two apart.
CallerChain_InPlace(past, path) == Append(past, path)

\* past + [path]: the list the nested call is given ...
NestedChain(past, path) == Append(past, path)

\* ... and the caller's own list after it.
CallerChain(past, path) == past

Top == stack[Len(stack)]

\* The top call has a line left to read.
HasLine ==
    /\ pc = "expand"
    /\ stack # <<>>
    /\ Top.line_no < Len(Content(Top.r))

NextLine == Content(Top.r)[Top.line_no + 1]

NextPath == find_include(NextLine, FullIncludes(includes, Top.r))

SetTop(f) == [stack EXCEPT ![Len(stack)] = f]

----------------------------------------------------------------------------
(* Init and the actions *)

Init ==
    /\ files \in FileSystems
    /\ includes \in IncludeLists
    /\ marker \in MarkerFormats
    /\ symbols \in SymbolLists
    /\ pc = "define"
    /\ k = 0
    /\ stack = <<>>
    /\ out = <<>>
    /\ dout = <<>>
    /\ ret = <<>>

\* process: one #define for the next symbol.
DefineSym ==
    /\ pc = "define"
    /\ k < Len(symbols)
    /\ out' = Append(out, DefineLine(symbols[k + 1]))
    /\ k' = k + 1
    /\ UNCHANGED <<files, includes, marker, symbols, pc, stack, dout, ret>>

\* process: expand(r, w, includes, [], marker, rel_path), up to the first
\* marker of the call.
StartExpand ==
    /\ pc = "define"
    /\ k = Len(symbols)
    /\ pc' = "expand"
    /\ stack' = <<NewFrame(HeaderPath, <<>>)>>
    /\ out' = Append(out, Format(marker, 1, RelPath(HeaderPath)))
    /\ UNCHANGED <<files, includes, marker, symbols, k, dout, ret>>

\* PassLine with the line read but not written; C6 must tell the two apart.
PassLine_NotWritten ==
    /\ HasLine
    /\ ~Truthy(NextPath)
    /\ stack' = SetTop([Top EXCEPT !.line_no = @ + 1])
    /\ UNCHANGED <<files, includes, marker, symbols, pc, k, out, dout, ret>>

\* expand: a line with no #include, or with one that is not found.
PassLine ==
    /\ HasLine
    /\ ~Truthy(NextPath)
    /\ out' = Append(out, NextLine)
    /\ stack' = SetTop([Top EXCEPT !.line_no = @ + 1])
    /\ UNCHANGED <<files, includes, marker, symbols, pc, k, dout, ret>>

\* SkipInclude with no marker written; C9's amended statement must tell the
\* two apart.
SkipInclude_Silent ==
    /\ HasLine
    /\ Truthy(NextPath)
    /\ \E i \in DOMAIN Top.past : Top.past[i] = NextPath
    /\ stack' = SetTop([Top EXCEPT !.line_no = @ + 1])
    /\ UNCHANGED <<files, includes, marker, symbols, pc, k, out, dout, ret>>

\* expand: an #include of a path in past.
SkipInclude ==
    /\ HasLine
    /\ Truthy(NextPath)
    /\ \E i \in DOMAIN Top.past : Top.past[i] = NextPath
    /\ out' = Append(out, Format(marker, Top.line_no + 1, Top.name))
    /\ stack' = SetTop([Top EXCEPT !.line_no = @ + 1])
    /\ UNCHANGED <<files, includes, marker, symbols, pc, k, dout, ret>>

\* expand: an #include of a path not in past; the nested call starts.
CallExpand ==
    /\ HasLine
    /\ Truthy(NextPath)
    /\ \A i \in DOMAIN Top.past : Top.past[i] # NextPath
    /\ Len(stack) < RecursionLimit
    /\ stack' = Append(
           SetTop([Top EXCEPT !.line_no = @ + 1,
                              !.depends = Append(@, NextPath),
                              !.past = CallerChain(@, NextPath)]),
           NewFrame(NextPath, NestedChain(Top.past, NextPath)))
    /\ out' = Append(out, Format(marker, 1, RelPath(NextPath)))
    /\ UNCHANGED <<files, includes, marker, symbols, pc, k, dout, ret>>

\* expand: the nested call would exceed the interpreter's recursion limit;
\* RecursionError is raised and nothing catches it.
RecursionOverflow ==
    /\ HasLine
    /\ Truthy(NextPath)
    /\ \A i \in DOMAIN Top.past : Top.past[i] # NextPath
    /\ Len(stack) >= RecursionLimit
    /\ pc' = "aborted"
    /\ stack' = SetTop([Top EXCEPT !.line_no = @ + 1,
                                   !.depends = Append(@, NextPath)])
    /\ UNCHANGED <<files, includes, marker, symbols, k, out, dout, ret>>

\* ReturnExpand with the nested call's list thrown away; C7 must tell the
\* two apart.
ReturnExpand_NoExtend ==
    /\ pc = "expand"
    /\ Len(stack) > 1
    /\ Top.line_no = Len(Content(Top.r))
    /\ LET caller == stack[Len(stack) - 1]
       IN  /\ stack' = SubSeq(stack, 1, Len(stack) - 1)
           /\ out' = Append(out, Format(marker, caller.line_no, caller.name))
    /\ UNCHANGED <<files, includes, marker, symbols, pc, k, dout, ret>>

\* expand: a nested call returns; the caller extends its depends and writes
\* a marker.
ReturnExpand ==
    /\ pc = "expand"
    /\ Len(stack) > 1
    /\ Top.line_no = Len(Content(Top.r))
    /\ LET caller == stack[Len(stack) - 1]
       IN  /\ stack' = [SubSeq(stack, 1, Len(stack) - 1)
                           EXCEPT ![Len(stack) - 1].depends = @ \o Top.depends]
           /\ out' = Append(out, Format(marker, caller.line_no, caller.name))
    /\ UNCHANGED <<files, includes, marker, symbols, pc, k, dout, ret>>

\* expand: the root call returns to process.
FinishExpand ==
    /\ pc = "expand"
    /\ Len(stack) = 1
    /\ Top.line_no = Len(Content(Top.r))
    /\ ret' = Top.depends
    /\ stack' = <<>>
    /\ pc' = "depends"
    /\ UNCHANGED <<files, includes, marker, symbols, k, out, dout>>

\* process: the dependency rule and the phony targets, for the d and phony
\* process was given.
WriteDepends ==
    /\ pc = "depends"
    /\ \E d \in BOOLEAN, phony \in BOOLEAN :
          dout' = (IF d THEN <<RuleLine(ret)>> ELSE <<>>)
                  \o (IF d /\ phony
                      THEN [i \in DOMAIN ret |-> PhonyLine(ret[i])]
                      ELSE <<>>)
    /\ pc' = "undef"
    /\ k' = 0
    /\ UNCHANGED <<files, includes, marker, symbols, stack, out, ret>>

\* process: one #undef for the next symbol.
UndefSym ==
    /\ pc = "undef"
    /\ k < Len(symbols)
    /\ out' = Append(out, UndefLine(symbols[k + 1]))
    /\ k' = k + 1
    /\ UNCHANGED <<files, includes, marker, symbols, pc, stack, dout, ret>>

\* process returns.
Finish ==
    /\ pc = "undef"
    /\ k = Len(symbols)
    /\ pc' = "done"
    /\ UNCHANGED <<files, includes, marker, symbols, k, stack, out, dout, ret>>

Next ==
    \/ DefineSym
    \/ StartExpand
    \/ PassLine
    \/ SkipInclude
    \/ CallExpand
    \/ RecursionOverflow
    \/ ReturnExpand
    \/ FinishExpand
    \/ WriteDepends
    \/ UndefSym
    \/ Finish

Spec == Init /\ [][Next]_vars

----------------------------------------------------------------------------
(* What the claims speak of *)

Range(s) == { s[i] : i \in DOMAIN s }

\* The frames above the root call: the files being expanded as includes.
Ancestors(j) == [i \in 1..(j - 1) |-> stack[i + 1].r]

\* The name on the #include line the call in frame j is at (the line it
\* read last).
IncludedName(j) == Content(stack[j].r)[stack[j].line_no].args

\* The directory of the file the call in frame j expands.
OwnDir(j) == Dirname(stack[j].r)

\* A caller-supplied directory holds a file of that name.
InSupplied(name) == \E i \in DOMAIN includes : IsFile(Join(includes[i], name))

FirstSupplied(name) ==
    CHOOSE i \in DOMAIN includes :
        /\ IsFile(Join(includes[i], name))
        /\ \A h \in 1..(i - 1) : ~IsFile(Join(includes[h], name))

\* The search directories of a call on r, as a set.
SearchDirs(r) == Range(includes) \cup { Dirname(r) }

\* A line expand has to leave alone: no #include, or a name no search
\* directory holds.
PassesThrough(line, r) ==
    \/ line.kind # "include"
    \/ \A d \in SearchDirs(r) : ~IsFile(Join(d, line.args))

\* The top call is at a nested call's return.
Returning == pc = "expand" /\ Len(stack) > 1 /\ Len(stack') = Len(stack) - 1

\* A call of expand starts.
Calling == Len(stack') = Len(stack) + 1

\* The top call read its next line and went on to the one after.
Advanced == stack' = SetTop([Top EXCEPT !.line_no = @ + 1])

\* The top call is about to read an #include of a path in its chain.
AtCycle ==
    /\ HasLine
    /\ Truthy(NextPath)
    /\ NextPath \in Range(Top.past)

\* The lines of out after the #defines.
Body == SubSeq(out, Len(symbols) + 1, Len(out))

----------------------------------------------------------------------------
(* C1 *)

\* C1: expand started by process terminates, whatever the files include:
\* the run stops only once process has returned, every call of expand
\* having returned.
C1_ExpandTerminates ==
    (~ENABLED Next) => (pc = "done" /\ stack = <<>>)

----------------------------------------------------------------------------
(* C2 *)

\* C2: no file is expanded while it is being expanded further up the chain
\* of nested calls, the root header included.
C2_NoFileTwiceOnChain ==
    \A i, j \in DOMAIN stack : i < j => stack[i].r # stack[j].r

----------------------------------------------------------------------------
(* C3 *)

\* C3, as claimed: a name held both by the including file's directory and
\* by a caller-supplied directory resolves to the file in the including
\* file's directory.
C3_OwnDirectoryFirst ==
    \A j \in 2..Len(stack) :
        LET name == IncludedName(j - 1)
            own == Join(OwnDir(j - 1), name)
        IN  (IsFile(own) /\ InSupplied(name)) => stack[j].r = own

\* C3, amended: the caller-supplied directories are checked first, in
\* order, and the including file's directory last; the include resolves
\* to the first of them holding the name.
C3_SuppliedDirectoriesFirst ==
    \A j \in 2..Len(stack) :
        LET name == IncludedName(j - 1)
            own == Join(OwnDir(j - 1), name)
        IN  IF InSupplied(name)
            THEN stack[j].r = Join(includes[FirstSupplied(name)], name)
            ELSE IsFile(own) /\ stack[j].r = own

\* A nested call on inc/b.h though b.h lies beside the including file.
C3_Witness ==
    /\ Len(stack) >= 2
    /\ IsFile(Join(OwnDir(1), IncludedName(1)))
    /\ InSupplied(IncludedName(1))
    /\ stack[2].r = <<"inc", "b.h">>

----------------------------------------------------------------------------
(* C4 *)

\* C4: the marker written after the nested expansion of the #include on
\* line n names the outer file and line n + 1; the first marker of every
\* call names line 1 of the file being expanded.
C4_ResyncToNextLine ==
    [][ /\ Returning =>
            out' = Append(out, Format(marker,
                                      stack[Len(stack) - 1].line_no + 1,
                                      RelPath(stack[Len(stack) - 1].r)))
        /\ Calling =>
            out' = Append(out, Format(marker, 1,
                                      RelPath(stack'[Len(stack')].r))) ]_vars

----------------------------------------------------------------------------
(* C5 *)

\* C5: with a blank marker format expand writes nothing for a marker, not
\* even an empty line (no header of the model holds an empty line), and a
\* header without #include comes out as it is.
C5_BlankMarkerWritesNothing ==
    marker = "" =>
        /\ \A i \in DOMAIN out : out[i] # TextLine("")
        /\ (pc = "depends"
            /\ \A i \in DOMAIN Content(HeaderPath) :
                   Content(HeaderPath)[i].kind # "include")
           => Body = Content(HeaderPath)

----------------------------------------------------------------------------
(* C9 *)

----------------------------------------------------------------------------
(* C6 *)

\* What is left of written lines without the lines written from the
\* marker format.
RECURSIVE SourceOnly(_)
SourceOnly(ls) ==
    IF ls = <<>> THEN <<>>
    ELSE IF Head(ls).kind = "marker" \/ Head(ls) = TextLine("")
         THEN SourceOnly(Tail(ls))
         ELSE <<Head(ls)>> \o SourceOnly(Tail(ls))

\* The lines left alone by a call on r with the chain past, and by the
\* calls nested in it, from line n on, in the order they are read.
RECURSIVE PassedFrom(_, _, _)
PassedFrom(r, past, n) ==
    IF n > Len(Content(r)) THEN <<>>
    ELSE LET line == Content(r)[n]
             path == find_include(line, FullIncludes(includes, r))
         IN  (IF PassesThrough(line, r) THEN <<line>>
              ELSE IF path \in Range(past) THEN <<>>
              ELSE PassedFrom(path, Append(past, path), 1))
             \o PassedFrom(r, past, n + 1)

\* C6: a line without #include, and an #include whose name no search
\* directory holds, is written as it is, once, in source order, and adds
\* neither a marker nor a dependency: the step that reads it appends it to
\* the output and changes nothing else of the call, and the source lines of
\* the finished output are those lines of every expansion, in order.
C6_PassThrough ==
    /\ [](pc = "depends" => SourceOnly(Body) = PassedFrom(HeaderPath, <<>>, 1))
    /\ [][ (HasLine /\ PassesThrough(NextLine, Top.r)) =>
               (out' = Append(out, NextLine) /\ Advanced) ]_vars

\* An #include of sys.h, found nowhere, has been written after a line of
\* text, and the call has no dependency.
C6_Witness ==
    /\ pc = "expand"
    /\ Len(stack) = 1
    /\ Top.line_no = 2
    /\ Top.depends = <<>>
    /\ Content(Top.r) = <<TextLine("X"), IncludeLine(<<"sys.h">>)>>
    /\ SubSeq(out, Len(out) - 1, Len(out)) = Content(Top.r)

----------------------------------------------------------------------------
(* C7 *)

\* The paths of the includes expanded by a call on r with the chain past,
\* from line n on: each one's path, then those of its nested call.
RECURSIVE DepthFirst(_, _, _)
DepthFirst(r, past, n) ==
    IF n > Len(Content(r)) THEN <<>>
    ELSE LET line == Content(r)[n]
             path == find_include(line, FullIncludes(includes, r))
         IN  (IF PassesThrough(line, r) \/ path \in Range(past) THEN <<>>
              ELSE <<path>> \o DepthFirst(path, Append(past, path), 1))
             \o DepthFirst(r, past, n + 1)

\* C7: the list a call of expand returns is the depth-first sequence of
\* the paths of the includes it expanded, duplicates kept; unresolved and
\* skipped includes add nothing.
C7_DependsDepthFirst ==
    /\ (pc = "expand" /\ stack # <<>> /\ Top.line_no = Len(Content(Top.r)))
          => Top.depends = DepthFirst(Top.r, Top.past, 1)
    /\ pc = "depends" => ret = DepthFirst(HeaderPath, <<>>, 1)

\* a.h includes b.h once, b.h includes nothing: b.h's path, once.
C7_Witness ==
    /\ pc = "depends"
    /\ includes = <<>>
    /\ Content(<<"a.h">>) = <<IncludeLine(<<"b.h">>)>>
    /\ Content(<<"b.h">>) = <<TextLine("X")>>
    /\ ret = << <<"b.h">> >>

----------------------------------------------------------------------------
(* C8 *)

\* The #define line of a symbol: with its value, or the name alone.
ExpectedDefine(s) ==
    [kind |-> "define", line |-> 0,
     args |-> IF s.val = "" THEN <<s.sym>> ELSE <<s.sym, s.val>>,
     fmt |-> IF s.val = "" THEN "#define %s" ELSE "#define %s %s"]

ExpectedUndef(s) ==
    [kind |-> "undef", line |-> 0, args |-> <<s.sym>>, fmt |-> "#undef %s"]

Kinds(ls) == { ls[i].kind : i \in DOMAIN ls }

\* C8: the output starts with one #define per symbol, in order, and ends
\* with one #undef per symbol, in the same order, with the expanded body
\* between; no #define after the body starts, no #undef before it ends.
C8_DefineUndefWrap ==
    LET n == Len(symbols)
    IN  /\ pc = "define" => out = [i \in 1..k |-> ExpectedDefine(symbols[i])]
        /\ pc # "define" =>
              /\ SubSeq(out, 1, n) = [i \in 1..n |-> ExpectedDefine(symbols[i])]
              /\ Len(out) > n
        /\ pc \in {"expand", "depends", "aborted"} =>
              Kinds(Body) \cap {"define", "undef"} = {}
        /\ pc = "undef" =>
              /\ SubSeq(out, Len(out) - k + 1, Len(out))
                    = [i \in 1..k |-> ExpectedUndef(symbols[i])]
              /\ Kinds(SubSeq(out, n + 1, Len(out) - k))
                    \cap {"define", "undef"} = {}
        /\ pc = "done" =>
              /\ SubSeq(out, Len(out) - n + 1, Len(out))
                    = [i \in 1..n |-> ExpectedUndef(symbols[i])]
              /\ Kinds(SubSeq(out, n + 1, Len(out) - n))
                    \cap {"define", "undef"} = {}

\* FOO=1 and BAR around a body that includes b.h.
C8_Witness ==
    /\ pc = "done"
    /\ Len(symbols) = 2
    /\ ret # <<>>
    /\ out[1].args = <<"FOO", "1">>
    /\ out[2].args = <<"BAR">>
    /\ out[Len(out)].kind = "undef"

----------------------------------------------------------------------------
(* C10 *)

\* C10: a nested call leaves its caller's inclusion chain alone and is
\* given that chain with the one resolved path added, so the chain of a
\* call is the files being expanded from the root call's includes down to
\* it, and an #include of a file that is not among them is expanded,
\* whatever the sibling branches expanded or skipped.
C10_ChainIsOwn ==
    /\ [](\A j \in DOMAIN stack : stack[j].past = Ancestors(j))
    /\ [][ /\ \A j \in DOMAIN stack \cap DOMAIN stack' :
                 stack'[j].past = stack[j].past
           /\ Calling /\ stack # <<>> =>
                 stack'[Len(stack')].past
                    = Append(Top.past, stack'[Len(stack')].r)
           /\ (/\ HasLine
               /\ Truthy(NextPath)
               /\ NextPath \notin Range(Ancestors(Len(stack)))
               /\ Len(stack) < RecursionLimit)
              => (Calling /\ stack'[Len(stack')].r = NextPath) ]_vars

\* The root header includes a file a second time, from a sibling branch,
\* and it is expanded again.
C10_Witness ==
    /\ pc = "expand"
    /\ Len(stack) = 2
    /\ stack[1].line_no = 2
    /\ stack[1].depends = <<stack[2].r, stack[2].r>>
    /\ stack[2].past = <<stack[2].r>>

====
